---- MODULE Spec2Model ----
(***************************************************************************)
(* State-machine model of GstQtPlayer (src/src/main.cpp): the playback     *)
(* state handler (togglePlayPause, pumpBus, updatePosition, doSeek), the   *)
(* quality controller (toggleQuality), the stream router (onPadAdded) and  *)
(* the metrics collector (onSinkBufferProbe).                              *)
(*                                                                         *)
(* The media engine (GStreamer) is the environment: it completes requested *)
(* state changes asynchronously, posts messages on the bus, decides        *)
(* whether two pads are compatible, and delivers buffers to the probe on   *)
(* its streaming thread.                                                   *)
(*                                                                         *)
(* Every step records in `last` which handler ran and the ordered trace of *)
(* the engine/UI calls it made (the same events the code logs).            *)
(***************************************************************************)
EXTENDS Integers, Sequences, FiniteSets, TLC

\* ------------------------------------------------------------------ bounds
MaxBus     == 2   \* messages pending on the bus
MaxToggles == 2   \* toggleQuality invocations counted
MaxSame    == 1   \* discovered pads per capability name
MaxPts     == 1   \* largest presentation timestamp delivered to the probe
MaxFrames  == 1   \* accepted samples explored per reset in Spec / SpecConc
MaxTime    == 2   \* wall-clock ticks
MaxGap     == 7   \* timestamps advance by 1..MaxGap half-milliseconds in SpecWindow
MaxExtra   == 2   \* samples accepted beyond the second trim in SpecWindow
MaxLen     == 4   \* longest vector handed to percentile in SpecPercentile
MaxSample  == 2   \* largest sample in such a vector

\* ------------------------------------------------------- program constants
PercentileEvery == 60     \* main.cpp:553
TrimAbove       == 1200   \* main.cpp:564
TrimCount       == 200    \* main.cpp:565
LowWidth        == 640    \* main.cpp:342
LowHeight       == 360    \* main.cpp:343
\* Timestamps are counted in half milliseconds, so that the integer division
\* of main.cpp:549 is visible: GST_MSECOND is two of them.
GstMSecond      == 2      \* main.cpp:549

VARIABLES
  cur,                \* the pipeline's current state inside the engine
  reqState,           \* the state last requested with gst_element_set_state
  playBtnText,        \* playBtn_ label
  throttleBtnText,    \* throttleBtn_ label
  bus,                \* messages posted by the engine, not yet popped
  sliderValue,        \* slider_->value()
  lowQuality_,        \* main.cpp:621
  vcapsCaps,          \* the "caps" property of vcaps_
  nToggles,           \* history: number of toggleQuality invocations so far
  elements,           \* the elements gst_element_factory_make returned non-NULL
  aborted,            \* TRUE iff the constructor ended in qFatal
  cencState,          \* state requested on cencdec_
  links,              \* set of <<source pad, sink pad>> links made by the router
  playStartTimer_,    \* start instant of the TTFF stopwatch (-1: never started)
  firstFrameSeen_,
  sinkProbeAttached_,
  lastPts_,
  frames_,
  frameCount_,
  now,                \* wall clock
  nTTFF,              \* history: TTFF reports since the stopwatch was last restarted
  ctl,                \* control context: "idle" or the line it is about to run
  prb,                \* streaming context: "idle" or the line it is about to run
  prbLoc,             \* locals of the in-flight probe callback: [pts, delta_ms]
  last                \* [op, arg, trace] of the step just taken

playbackVars == <<cur, reqState, playBtnText, bus, sliderValue>>
qualityVars  == <<lowQuality_, vcapsCaps, throttleBtnText, nToggles>>
routerVars   == <<elements, aborted, cencState, links>>
metricVars   == <<playStartTimer_, firstFrameSeen_, lastPts_, frames_, frameCount_>>
threadVars   == <<ctl, prb, prbLoc>>
vars == <<cur, reqState, playBtnText, throttleBtnText, bus, sliderValue,
          lowQuality_, vcapsCaps, nToggles, elements, aborted, cencState, links,
          playStartTimer_, firstFrameSeen_, sinkProbeAttached_, lastPts_,
          frames_, frameCount_, now, nTTFF, ctl, prb, prbLoc, last>>

\* Slider positions the position poll and the user produce (ms).
SliderPositions == {0, 5000}

\* ----------------------------------------------------------- engine states
GstStates == <<"NULL", "READY", "PAUSED", "PLAYING">>
StateSet  == {GstStates[i] : i \in 1..4}
Rank(s)   == CHOOSE i \in 1..4 : GstStates[i] = s

\* GST_CLOCK_TIME_NONE
NONE == -1

\* The states a state change from `from` to `to` passes through, `from` and
\* `to` included: gst_element_set_state may complete any prefix of the change
\* before it returns, the engine completes the rest asynchronously.
Path(from, to) ==
  {s \in StateSet :
     \/ Rank(from) <= Rank(s) /\ Rank(s) <= Rank(to)
     \/ Rank(to) <= Rank(s) /\ Rank(s) <= Rank(from)}

\* One state nearer to `to`.
StepToward(from, to) ==
  IF Rank(from) < Rank(to) THEN GstStates[Rank(from) + 1]
  ELSE IF Rank(from) > Rank(to) THEN GstStates[Rank(from) - 1]
  ELSE from

\* ------------------------------------------------------------ trace events
EvSetState(el, s) == [ev |-> "set_state", a |-> el, b |-> s]
EvSetText(btn, t) == [ev |-> "setText", a |-> btn, b |-> t]
EvMsg(m)          == [ev |-> "message", a |-> m, b |-> ""]
EvCaps(c)         == [ev |-> "set_caps", a |-> "vcaps", b |-> c]
EvReconfigure     == [ev |-> "reconfigure", a |-> "vscale", b |-> ""]
EvLowQuality(v)   == [ev |-> "lowQuality", a |-> "", b |-> IF v THEN "true" ELSE "false"]
EvSeek(ms)        == [ev |-> "seek", a |-> "pipeline", b |-> ms]
EvReset           == [ev |-> "metrics_reset", a |-> "", b |-> ""]
EvProbe           == [ev |-> "add_probe", a |-> "vsink", b |-> ""]
EvTTFF(ms)        == [ev |-> "ttff", a |-> "", b |-> ms]
EvPercentiles(q50, q95) == [ev |-> "percentiles", a |-> q50, b |-> q95]
EvLink(src, sink, r)    == [ev |-> "link", a |-> <<src, sink>>, b |-> r]

Did(opName, argv, tr) == [op |-> opName, arg |-> argv, trace |-> tr]

\* Index of the first occurrence of event e in trace tr, 0 when absent.
IndexOf(tr, e) ==
  LET Is(i) == tr[i].ev = e.ev /\ tr[i] = e
  IN  IF \E i \in 1..Len(tr) : Is(i)
      THEN CHOOSE i \in 1..Len(tr) : Is(i) /\ \A j \in 1..(i-1) : ~Is(j)
      ELSE 0

\* ------------------------------------------------------------- construction
RequiredElements ==
  {"pipeline", "filesrc", "decodebin", "qVideo", "vconvert", "vscale",
   "vcaps", "vsink", "qAudio", "aconv", "ares", "asink"}
AllElements == RequiredElements \cup {"cencdec"}

\* main.cpp:124-137: a missing required element is fatal; cencdec is not
\* among them (main.cpp:139-143 only warns).
ConstructorAborts(created) == \E e \in RequiredElements : e \notin created

\* What element creation can return: everything, or one element missing.
CreationOutcomes == {AllElements} \cup {AllElements \ {e} : e \in AllElements}

cencdec_ == "cencdec" \in elements

\* The state the constructor leaves (main.cpp:42-203, members 589-629).
Constructed ==
  /\ elements \in CreationOutcomes
  /\ aborted = ConstructorAborts(elements)
  /\ cur = "NULL"
  /\ reqState = "NULL"
  /\ playBtnText = "Play"
  /\ throttleBtnText = "Simulate bitrate drop"
  /\ bus = <<>>
  /\ sliderValue = 0
  /\ lowQuality_ = FALSE
  /\ vcapsCaps = [name |-> "ANY", width |-> 0, height |-> 0]
  /\ nToggles = 0
  /\ cencState = "NULL"
  /\ links = {}
  /\ playStartTimer_ = -1
  /\ firstFrameSeen_ = FALSE
  /\ sinkProbeAttached_ = FALSE
  /\ lastPts_ = NONE
  /\ frames_ = <<>>
  /\ frameCount_ = 0
  /\ now = 0
  /\ nTTFF = 0
  /\ ctl = "idle"
  /\ prb = "idle"
  /\ prbLoc = [pts |-> NONE, delta_ms |-> 0]

Init ==
  /\ Constructed
  /\ last = Did("init", "", <<>>)

\* The control context is free to run a handler.
Running == ~aborted /\ ctl = "idle"

\* ------------------------------------------------------------------ engine
\* The engine completes one step of a pending state change.
EngineStep ==
  /\ ~aborted
  /\ cur # reqState
  /\ cur' = StepToward(cur, reqState)
  /\ last' = Did("engine", "", <<>>)
  /\ UNCHANGED <<reqState, playBtnText, bus, sliderValue, qualityVars, routerVars,
                 metricVars, sinkProbeAttached_, now, nTTFF, threadVars>>

Messages == {"ERROR", "EOS", "OTHER"}

\* The engine posts a message on the bus: an error once the pipeline has been
\* asked to leave NULL, end-of-stream while data flows.
PostMessage(m) ==
  /\ ~aborted
  /\ Len(bus) < MaxBus
  /\ m = "ERROR" => (reqState # "NULL" \/ cur # "NULL")
  /\ m = "EOS" => cur \in {"PAUSED", "PLAYING"}
  /\ m = "OTHER" => (reqState # "NULL" \/ cur # "NULL")
  /\ bus' = Append(bus, m)
  /\ last' = Did("engine", "", <<>>)
  /\ UNCHANGED <<cur, reqState, playBtnText, sliderValue, qualityVars, routerVars,
                 metricVars, sinkProbeAttached_, now, nTTFF, threadVars>>

\* --------------------------------------------------------- togglePlayPause
\* main.cpp:169-171, 576: what gst_element_get_static_pad(vsink_, "sink") # NULL
\* can be. The constructor linked vcaps_ to vsink_ or ended in qFatal, so the
\* sink pad of vsink_ exists in every state a handler runs in.
VsinkPadAvailable == {TRUE}

\* Mutant: the probe is added whether or not one is attached.
AttachTraceUnguarded(padAvail) == IF padAvail THEN <<EvProbe>> ELSE <<>>

\* main.cpp:574-585. padAvail: gst_element_get_static_pad(vsink_, "sink") # NULL
AttachTrace(padAvail) ==
  IF ~sinkProbeAttached_ /\ padAvail THEN <<EvProbe>> ELSE <<>>
AttachedAfter(padAvail) == sinkProbeAttached_ \/ padAvail

\* main.cpp:238-259
TogglePlayPause ==
  /\ Running
  /\ IF cur = "PLAYING"
     THEN /\ \E c \in Path(cur, "PAUSED") : cur' = c
          /\ reqState' = "PAUSED"
          /\ playBtnText' = "Play"
          /\ last' = Did("togglePlayPause", "pause",
                         <<EvSetState("pipeline", "PAUSED"), EvSetText("playBtn", "Play")>>)
          /\ UNCHANGED <<metricVars, sinkProbeAttached_, nTTFF>>
     ELSE /\ playStartTimer_' = now
          /\ nTTFF' = 0
          /\ firstFrameSeen_' = FALSE
          /\ frames_' = <<>>
          /\ frameCount_' = 0
          /\ lastPts_' = NONE
          /\ \E c \in Path(cur, "PLAYING") : cur' = c
          /\ reqState' = "PLAYING"
          /\ playBtnText' = "Pause"
          /\ \E padAvail \in VsinkPadAvailable :
               /\ sinkProbeAttached_' = AttachedAfter(padAvail)
               /\ last' = Did("togglePlayPause", "play",
                              <<EvReset, EvSetState("pipeline", "PLAYING"),
                                EvSetText("playBtn", "Pause")>> \o AttachTrace(padAvail))
  /\ UNCHANGED <<bus, sliderValue, qualityVars, routerVars, now, threadVars>>

\* ----------------------------------------------------------------- pumpBus
IsTerminal(m) == m \in {"ERROR", "EOS"}

\* Mutant: EOS requests READY but leaves the label alone.
HandleMessageEosKeepsLabel(m) ==
  IF m = "ERROR"
  THEN <<EvMsg(m), EvSetState("pipeline", "READY"), EvSetText("playBtn", "Play")>>
  ELSE IF m = "EOS" THEN <<EvMsg(m), EvSetState("pipeline", "READY")>>
  ELSE <<EvMsg(m)>>

\* main.cpp:267-290: what handling one popped message does.
HandleMessage(m) ==
  IF IsTerminal(m)
  THEN <<EvMsg(m), EvSetState("pipeline", "READY"), EvSetText("playBtn", "Play")>>
  ELSE <<EvMsg(m)>>

\* main.cpp:262-292: the loop pops until the bus is empty.
RECURSIVE DrainTrace(_)
DrainTrace(q) ==
  IF q = <<>> THEN <<>> ELSE HandleMessage(Head(q)) \o DrainTrace(Tail(q))

\* The last state the trace requests of the pipeline, `dflt` when none.
RECURSIVE LastRequested(_, _)
LastRequested(tr, dflt) ==
  IF tr = <<>> THEN dflt
  ELSE LET e == tr[Len(tr)]
       IN  IF e.ev = "set_state" /\ e.a = "pipeline" THEN e.b
           ELSE LastRequested(SubSeq(tr, 1, Len(tr) - 1), dflt)

\* The last label the trace sets on the play button, `dflt` when none.
RECURSIVE LastPlayText(_, _)
LastPlayText(tr, dflt) ==
  IF tr = <<>> THEN dflt
  ELSE LET e == tr[Len(tr)]
       IN  IF e.ev = "setText" /\ e.a = "playBtn" THEN e.b
           ELSE LastPlayText(SubSeq(tr, 1, Len(tr) - 1), dflt)

\* main.cpp:261-293
PumpBus ==
  /\ Running
  /\ LET tr == DrainTrace(bus)
         rq == LastRequested(tr, reqState)
     IN  /\ reqState' = rq
         /\ IF \E i \in 1..Len(bus) : IsTerminal(bus[i])
            THEN \E c \in Path(cur, rq) : cur' = c
            ELSE cur' = cur
         /\ playBtnText' = LastPlayText(tr, playBtnText)
         /\ last' = Did("pumpBus", "", tr)
  /\ bus' = <<>>
  /\ UNCHANGED <<sliderValue, qualityVars, routerVars, metricVars,
                 sinkProbeAttached_, now, nTTFF, threadVars>>

\* ---------------------------------------------------------- updatePosition
\* main.cpp:295-310. answered: both queries succeed and dur > 0.
UpdatePosition ==
  /\ Running
  /\ \E answered \in BOOLEAN, msPos \in SliderPositions :
       /\ sliderValue' = IF answered THEN msPos ELSE sliderValue
       /\ last' = Did("updatePosition", "", <<>>)
  /\ UNCHANGED <<cur, reqState, playBtnText, bus, qualityVars, routerVars,
                 metricVars, sinkProbeAttached_, now, nTTFF, threadVars>>

\* ------------------------------------------------------------------ doSeek
\* main.cpp:312-329. The user releases the slider at `ms`.
DoSeek ==
  /\ Running
  /\ \E ms \in SliderPositions :
       /\ sliderValue' = ms
       /\ last' = Did("doSeek", "", <<EvSeek(ms * GstMSecond), EvReset>>)
  /\ lastPts_' = NONE
  /\ frames_' = <<>>
  /\ frameCount_' = 0
  /\ firstFrameSeen_' = FALSE
  /\ playStartTimer_' = now
  /\ nTTFF' = 0
  /\ UNCHANGED <<cur, reqState, playBtnText, bus, qualityVars, routerVars,
                 sinkProbeAttached_, now, threadVars>>

\* ----------------------------------------------------------- toggleQuality
AnyCaps == [name |-> "ANY", width |-> 0, height |-> 0]
LowCaps == [name |-> "video/x-raw", width |-> LowWidth, height |-> LowHeight]

\* Mutant: the restore branch forgets to clear lowQuality_.
QualityBranchSticky(low) ==
  IF ~low
  THEN <<EvCaps(LowCaps), EvReconfigure, EvLowQuality(TRUE),
         EvSetText("throttleBtn", "Restore quality")>>
  ELSE <<EvCaps(AnyCaps), EvReconfigure,
         EvSetText("throttleBtn", "Simulate bitrate drop")>>

\* Mutant: the restore branch leaves the dimension constraint on vcaps_.
QualityBranchKeepsCaps(low) ==
  IF ~low
  THEN <<EvCaps(LowCaps), EvReconfigure, EvLowQuality(TRUE),
         EvSetText("throttleBtn", "Restore quality")>>
  ELSE <<EvReconfigure, EvLowQuality(FALSE),
         EvSetText("throttleBtn", "Simulate bitrate drop")>>

\* main.cpp:338-362: the branch taken for the current lowQuality_.
QualityBranch(low) ==
  IF ~low
  THEN <<EvCaps(LowCaps), EvReconfigure, EvLowQuality(TRUE),
         EvSetText("throttleBtn", "Restore quality")>>
  ELSE <<EvCaps(AnyCaps), EvReconfigure, EvLowQuality(FALSE),
         EvSetText("throttleBtn", "Simulate bitrate drop")>>

\* Mutant: the pipeline is left paused.
QualityTraceNoResume(low) ==
  <<EvSetState("pipeline", "PAUSED")>> \o QualityBranch(low)

\* Mutant: the pause is requested after the caps were changed.
QualityTraceLatePause(low) ==
  QualityBranch(low) \o <<EvSetState("pipeline", "PAUSED"),
                          EvSetState("pipeline", "PLAYING")>>

\* main.cpp:331-366
QualityTrace(low) ==
  <<EvSetState("pipeline", "PAUSED")>> \o QualityBranch(low)
     \o <<EvSetState("pipeline", "PLAYING")>>

\* The value the trace leaves in field `b` of its last `kind` event on `a`.
RECURSIVE LastOf(_, _, _, _)
LastOf(tr, kind, a, dflt) ==
  IF tr = <<>> THEN dflt
  ELSE LET e == tr[Len(tr)]
       IN  IF e.ev = kind /\ e.a = a THEN e.b
           ELSE LastOf(SubSeq(tr, 1, Len(tr) - 1), kind, a, dflt)

ToggleQuality ==
  /\ Running
  /\ "pipeline" \in elements /\ "vcaps" \in elements
  /\ nToggles < MaxToggles
  /\ LET tr == QualityTrace(lowQuality_)
     IN  /\ reqState' = LastRequested(tr, reqState)
         /\ \E c1 \in Path(cur, "PAUSED") :
              \E c2 \in Path(c1, LastRequested(tr, reqState)) : cur' = c2
         /\ vcapsCaps' = LastOf(tr, "set_caps", "vcaps", vcapsCaps)
         /\ lowQuality_' = (LastOf(tr, "lowQuality", "",
                                    IF lowQuality_ THEN "true" ELSE "false") = "true")
         /\ throttleBtnText' = LastOf(tr, "setText", "throttleBtn", throttleBtnText)
         /\ last' = Did("toggleQuality", reqState, tr)
  /\ nToggles' = nToggles + 1
  /\ UNCHANGED <<playBtnText, bus, sliderValue, routerVars, metricVars,
                 sinkProbeAttached_, now, nTTFF, threadVars>>


\* --------------------------------------------------------------- percentile
\* The elements of v in ascending order (what a full sort of v gives).
RECURSIVE SortAsc(_)
SortAsc(v) ==
  IF v = <<>> THEN <<>>
  ELSE LET m == CHOOSE i \in 1..Len(v) : \A j \in 1..Len(v) : v[i] <= v[j]
       IN  <<v[m]>> \o SortAsc(SubSeq(v, 1, m - 1) \o SubSeq(v, m + 1, Len(v)))

\* main.cpp:35: what std::nth_element(v.begin(), v.begin() + idx, v.end())
\* leaves at position idx (counted from 0): a value of v with at most idx
\* elements below it and more than idx elements not above it.
NthElement(v, idx) ==
  LET Pos == 1..Len(v)
  IN  CHOOSE x \in {v[i] : i \in Pos} :
        /\ Cardinality({i \in Pos : v[i] < x}) <= idx
        /\ Cardinality({i \in Pos : v[i] <= x}) > idx

\* main.cpp:34: size_t(floor((p / 100.0) * (n - 1))) for a vector of n > 0
\* elements. 50/100.0 is exact; 95/100.0 is 0.95 less 4.5e-17, and where
\* 0.95 * (n - 1) is an integer k the double product rounds to k itself (the
\* error k * 4.7e-17 is under half the spacing of doubles at k), so the double
\* computation gives the integer quotient for every vector size.
PercentileIndex(n, p) == (p * (n - 1)) \div 100

\* Mutant: the index is taken on n in place of n - 1.
percentileOnSize(v, p) ==
  IF v = <<>> THEN 0 ELSE NthElement(v, (p * Len(v)) \div 100)

\* main.cpp:32-37
percentile(v, p) ==
  IF v = <<>> THEN 0 ELSE NthElement(v, PercentileIndex(Len(v), p))

\* ------------------------------------------------------- onSinkBufferProbe
\* main.cpp:537-542
ProbeTTFF(seen, started, t) == IF ~seen THEN <<EvTTFF(t - started)>> ELSE <<>>

\* Mutant: a timestamp that did not advance is accepted too.
ProbeAcceptsNoAdvance(pts, lastPts) == pts # NONE /\ lastPts # NONE /\ pts - lastPts >= 0

\* main.cpp:544-548: the sample is taken
ProbeAccepts(pts, lastPts) == pts # NONE /\ lastPts # NONE /\ pts - lastPts > 0

\* main.cpp:549
DeltaMs(pts, lastPts) == (pts - lastPts) \div GstMSecond

\* Mutant: the pair is emitted one sample late.
ProbePercentilesLate(fr, cnt) ==
  IF cnt % PercentileEvery = 1
  THEN <<EvPercentiles(percentile(fr, 50), percentile(fr, 95))>>
  ELSE <<>>

\* main.cpp:553-561
ProbePercentiles(fr, cnt) ==
  IF cnt % PercentileEvery = 0
  THEN <<EvPercentiles(percentile(fr, 50), percentile(fr, 95))>>
  ELSE <<>>

\* Mutant: the trim removes one entry too few.
ProbeTrimOneLess(fr) ==
  IF Len(fr) > TrimAbove THEN SubSeq(fr, TrimCount, Len(fr)) ELSE fr

\* Mutant: the trim removes the newest entries.
ProbeTrimNewest(fr) ==
  IF Len(fr) > TrimAbove THEN SubSeq(fr, 1, Len(fr) - TrimCount) ELSE fr

\* main.cpp:563-566
ProbeTrim(fr) ==
  IF Len(fr) > TrimAbove THEN SubSeq(fr, TrimCount + 1, Len(fr)) ELSE fr

\* Buffers reach the video sink while the pipeline streams: prerolling or
\* paused or playing.
Streaming ==
  /\ sinkProbeAttached_
  /\ \/ cur \in {"PAUSED", "PLAYING"}
     \/ cur = "READY" /\ reqState \in {"PAUSED", "PLAYING"}

\* main.cpp:529-572: the callback for a buffer with timestamp pts, run to
\* completion with no control-context step between.
ProbeRun(pts) ==
  LET acc == ProbeAccepts(pts, lastPts_)
      fr1 == IF acc THEN Append(frames_, DeltaMs(pts, lastPts_)) ELSE frames_
      cnt == IF acc THEN frameCount_ + 1 ELSE frameCount_
  IN  /\ firstFrameSeen_' = TRUE
      /\ nTTFF' = IF ~firstFrameSeen_ THEN nTTFF + 1 ELSE nTTFF
      /\ frames_' = IF acc THEN ProbeTrim(fr1) ELSE frames_
      /\ frameCount_' = cnt
      /\ lastPts_' = IF pts # NONE THEN pts ELSE lastPts_
      /\ last' = Did("onSinkBufferProbe", pts,
                     ProbeTTFF(firstFrameSeen_, playStartTimer_, now)
                       \o (IF acc THEN ProbePercentiles(fr1, cnt) ELSE <<>>))
      /\ UNCHANGED <<playbackVars, qualityVars, routerVars, playStartTimer_,
                     sinkProbeAttached_, now, threadVars>>

\* A buffer reaches the video sink between two handlers of the control context.
OnSinkBufferProbe ==
  /\ ~aborted /\ prb = "idle" /\ ctl = "idle"
  /\ Streaming
  /\ frameCount_ < MaxFrames
  /\ \E pts \in {NONE} \cup 0..MaxPts : ProbeRun(pts)

\* Wall-clock time passes.
Tick ==
  /\ ~aborted
  /\ now < MaxTime
  /\ now' = now + 1
  /\ last' = Did("engine", "", <<>>)
  /\ UNCHANGED <<playbackVars, qualityVars, routerVars, metricVars,
                 sinkProbeAttached_, nTTFF, threadVars>>

\* ----------------------------------------------------------- specifications
\* The control context's handlers, each run to completion, with the engine.
Next ==
  \/ TogglePlayPause
  \/ PumpBus
  \/ UpdatePosition
  \/ DoSeek
  \/ ToggleQuality
  \/ OnSinkBufferProbe
  \/ EngineStep
  \/ \E m \in Messages : PostMessage(m)

Spec == Init /\ [][Next]_vars

\* -------------------------------------------------------------- onPadAdded
\* Capability names of discovered pads; "" stands for absent or empty caps
\* (main.cpp:408-416).
CapsNames ==
  {"", "video/x-raw", "audio/x-raw", "video/encv", "audio/enca",
   "application/x-cenc", "text/x-raw"}

\* The pads decodebin can announce.
DiscoveredPads == [dir : {"SRC", "SINK"}, caps : CapsNames, n : 1..MaxSame]

\* The static pads of the router's own elements. An element's always-pads
\* exist from its creation, so gst_element_get_static_pad finds them.
CencSink   == "cencdec.sink"
CencSrc    == [dir |-> "SRC", caps |-> "cencdec.src", n |-> 0]
QVideoSink == "qVideo.sink"
QAudioSink == "qAudio.sink"
InputEndpoints == {CencSink, QVideoSink, QAudioSink}

\* g_str_has_prefix
HasPrefix(str, prefix) ==
  Len(str) >= Len(prefix) /\ SubSeq(str, 1, Len(prefix)) = prefix

\* main.cpp:436-442
IsVideo(name) == HasPrefix(name, "video/")
IsAudio(name) == HasPrefix(name, "audio/")
IsCenc(name) ==
  \/ HasPrefix(name, "application/x-cenc")
  \/ HasPrefix(name, "video/encv")
  \/ HasPrefix(name, "audio/enca")

\* Mutant: the generic encrypted marker is treated as video.
TargetQueueCencAsVideo(name) ==
  IF IsVideo(name) \/ IsCenc(name) THEN QVideoSink
  ELSE IF IsAudio(name) THEN QAudioSink ELSE "none"

\* main.cpp:444
TargetQueue(name) ==
  IF IsVideo(name) THEN QVideoSink ELSE IF IsAudio(name) THEN QAudioSink ELSE "none"

\* gst_pad_is_linked
SinkLinked(L, sink) == \E l \in L : l[2] = sink
SrcLinked(L, src)   == \E l \in L : l[1] = src

\* gst_pad_link as called at main.cpp:466, 482, 512: the engine refuses a pad
\* that already has a peer, and otherwise links iff the pads are compatible.
GstPadLink(L, src, sink, compatible) ==
  IF SrcLinked(L, src) \/ SinkLinked(L, sink) THEN "WAS_LINKED"
  ELSE IF compatible THEN "OK" ELSE "REFUSED"

\* Mutant: the link is made whenever the pads are compatible, whatever is
\* linked already.
TryLinkUnguarded(L, src, sink, compatible) ==
  [res |-> IF compatible THEN "OK" ELSE "REFUSED",
   links |-> IF compatible THEN L \cup {<<src, sink>>} ELSE L]

\* One guarded link attempt (main.cpp:465-473, 481-499, 511-520): nothing is
\* called when the sink pad is already linked. The result and the links after.
TryLink(L, src, sink, compatible) ==
  IF SinkLinked(L, sink)
  THEN [res |-> "ALREADY", links |-> L]
  ELSE LET r == GstPadLink(L, src, sink, compatible)
       IN  [res |-> r, links |-> IF r = "OK" THEN L \cup {<<src, sink>>} ELSE L]

\* main.cpp:508-525: the direct path.
RouteDirect(L, pad, target, okD, cst, tr) ==
  LET d == TryLink(L, pad, target, okD)
  IN  [links |-> d.links, cencState |-> cst,
       trace |-> tr \o <<EvLink(pad, target, d.res)>>]

\* Mutant: the direct link is attempted even after the decryptor path linked.
RouteCencAlwaysFallback(L, pad, target, okB, okC, okD) ==
  LET b   == TryLink(L, pad, CencSink, okB)
      c   == TryLink(b.links, CencSrc, target, okC)
      tr  == <<EvSetState("cencdec", "READY"), EvLink(pad, CencSink, b.res),
               EvLink(CencSrc, target, c.res)>>
  IN  RouteDirect(c.links, pad, target, okD, "READY", tr)

\* main.cpp:452-506: the path through cencdec, falling through to the direct
\* path when the link into the queue was refused.
RouteCenc(L, pad, target, okB, okC, okD) ==
  LET b   == TryLink(L, pad, CencSink, okB)
      c   == TryLink(b.links, CencSrc, target, okC)
      tr  == <<EvSetState("cencdec", "READY"), EvLink(pad, CencSink, b.res),
               EvLink(CencSrc, target, c.res)>>
  IN  IF c.res \in {"OK", "ALREADY"}
      THEN [links |-> c.links, cencState |-> "READY", trace |-> tr]
      ELSE RouteDirect(c.links, pad, target, okD, "READY", tr)

\* Mutant: the decryptor path is taken without checking cencdec_ for NULL.
RouteNoNullCheck(L, cst, hasCenc, pad, okB, okC, okD) ==
  LET target == TargetQueue(pad.caps)
      ignore == [links |-> L, cencState |-> cst, trace |-> <<>>]
  IN  IF pad.dir # "SRC" THEN ignore
      ELSE IF pad.caps = "" THEN ignore
      ELSE IF target = "none" THEN ignore
      ELSE IF IsCenc(pad.caps)
           THEN RouteCenc(L, pad, target, okB, okC, okD)
           ELSE RouteDirect(L, pad, target, okD, cst, <<>>)

\* main.cpp:400-527
Route(L, cst, hasCenc, pad, okB, okC, okD) ==
  LET target == TargetQueue(pad.caps)
      ignore == [links |-> L, cencState |-> cst, trace |-> <<>>]
  IN  IF pad.dir # "SRC" THEN ignore
      ELSE IF pad.caps = "" THEN ignore
      ELSE IF target = "none" THEN ignore
      ELSE IF IsCenc(pad.caps) /\ hasCenc
           THEN RouteCenc(L, pad, target, okB, okC, okD)
           ELSE RouteDirect(L, pad, target, okD, cst, <<>>)

\* decodebin announces `pad`; okB, okC, okD: whether the engine finds the pads
\* of the three possible gst_pad_link calls compatible.
OnPadAdded(pad, okB, okC, okD) ==
  /\ Running
  /\ LET r == Route(links, cencState, cencdec_, pad, okB, okC, okD)
     IN  /\ links' = r.links
         /\ cencState' = r.cencState
         /\ last' = Did("onPadAdded", pad, r.trace)
  /\ UNCHANGED <<playbackVars, qualityVars, elements, aborted, metricVars,
                 sinkProbeAttached_, now, nTTFF, threadVars>>

\* The engine removes a discovered pad (decodebin drops its pads when the
\* pipeline leaves PAUSED); a removed pad loses its link.
PadRemoved(pad) ==
  /\ ~aborted
  /\ SrcLinked(links, pad)
  /\ links' = {l \in links : l[1] # pad}
  /\ last' = Did("engine", "", <<>>)
  /\ UNCHANGED <<playbackVars, qualityVars, elements, aborted, cencState,
                 metricVars, sinkProbeAttached_, now, nTTFF, threadVars>>

\* Stream discovery alone: every pad, every answer of the engine.
NextRouter ==
  \/ \E pad \in DiscoveredPads, okB, okC, okD \in BOOLEAN :
       OnPadAdded(pad, okB, okC, okD)
  \/ \E pad \in DiscoveredPads : PadRemoved(pad)

SpecRouter == Init /\ [][NextRouter]_vars

\* ------------------------------------------------- the two contexts, by line
\* The control context runs togglePlayPause and doSeek one statement at a
\* time while the streaming context runs onSinkBufferProbe one statement at a
\* time; nothing in main.cpp orders the two (no mutex, no atomic).

\* main.cpp:238-245: the handler starts; the PLAYING branch touches no metric.
CtlTogglePlayPause ==
  /\ Running
  /\ IF cur = "PLAYING"
     THEN /\ \E c \in Path(cur, "PAUSED") : cur' = c
          /\ reqState' = "PAUSED"
          /\ playBtnText' = "Play"
          /\ ctl' = "idle"
          /\ last' = Did("togglePlayPause", "pause",
                         <<EvSetState("pipeline", "PAUSED"), EvSetText("playBtn", "Play")>>)
     ELSE /\ ctl' = "L248"
          /\ last' = Did("togglePlayPause", "play", <<>>)
          /\ UNCHANGED <<cur, reqState, playBtnText>>
  /\ UNCHANGED <<bus, sliderValue, qualityVars, routerVars, metricVars,
                 sinkProbeAttached_, now, nTTFF, prb, prbLoc>>

\* main.cpp:312-322: the seek is issued, the reset follows.
CtlDoSeek ==
  /\ Running
  /\ \E ms \in SliderPositions :
       /\ sliderValue' = ms
       /\ last' = Did("doSeek", "", <<EvSeek(ms * GstMSecond)>>)
  /\ ctl' = "L324"
  /\ UNCHANGED <<cur, reqState, playBtnText, bus, qualityVars, routerVars,
                 metricVars, sinkProbeAttached_, now, nTTFF, prb, prbLoc>>

\* The statement after `line` in the control context.
CtlAfter(line) ==
  CASE line = "L248" -> "L249" [] line = "L249" -> "L250"
    [] line = "L250" -> "L251" [] line = "L251" -> "L252"
    [] line = "L252" -> "L253"
    [] line = "L324" -> "L325" [] line = "L325" -> "L326"
    [] line = "L326" -> "L327" [] line = "L327" -> "L328"
    [] OTHER -> "idle"

\* main.cpp:248-252 and 324-328: one assignment of a reset.
CtlResetStep ==
  /\ ~aborted
  /\ ctl \in {"L248", "L249", "L250", "L251", "L252",
              "L324", "L325", "L326", "L327", "L328"}
  /\ playStartTimer_' = IF ctl \in {"L248", "L328"} THEN now ELSE playStartTimer_
  /\ firstFrameSeen_' = IF ctl \in {"L249", "L327"} THEN FALSE ELSE firstFrameSeen_
  /\ frames_' = IF ctl \in {"L250", "L325"} THEN <<>> ELSE frames_
  /\ frameCount_' = IF ctl \in {"L251", "L326"} THEN 0 ELSE frameCount_
  /\ lastPts_' = IF ctl \in {"L252", "L324"} THEN NONE ELSE lastPts_
  /\ nTTFF' = IF ctl \in {"L248", "L328"} THEN 0 ELSE nTTFF
  /\ ctl' = CtlAfter(ctl)
  /\ last' = Did(IF ctl \in {"L248", "L249", "L250", "L251", "L252"}
                 THEN "togglePlayPause" ELSE "doSeek", ctl, <<>>)
  /\ UNCHANGED <<playbackVars, qualityVars, routerVars, sinkProbeAttached_,
                 now, prb, prbLoc>>

\* main.cpp:253-257: the PLAYING request that ends togglePlayPause.
CtlPlayRequest ==
  /\ ~aborted
  /\ ctl = "L253"
  /\ \E c \in Path(cur, "PLAYING") : cur' = c
  /\ reqState' = "PLAYING"
  /\ playBtnText' = "Pause"
  /\ \E padAvail \in VsinkPadAvailable :
       /\ sinkProbeAttached_' = AttachedAfter(padAvail)
       /\ last' = Did("togglePlayPause", "L253",
                      <<EvSetState("pipeline", "PLAYING"),
                        EvSetText("playBtn", "Pause")>> \o AttachTrace(padAvail))
  /\ ctl' = "idle"
  /\ UNCHANGED <<bus, sliderValue, qualityVars, routerVars, metricVars, now,
                 nTTFF, prb, prbLoc>>

\* main.cpp:529-536: a buffer with timestamp pts reaches the probe.
ProbeEnter ==
  /\ ~aborted
  /\ prb = "idle"
  /\ Streaming
  /\ frameCount_ < MaxFrames
  /\ \E pts \in {NONE} \cup 0..MaxPts : prbLoc' = [pts |-> pts, delta_ms |-> 0]
  /\ prb' = "L537"
  /\ last' = Did("onSinkBufferProbe", "enter", <<>>)
  /\ UNCHANGED <<playbackVars, qualityVars, routerVars, metricVars,
                 sinkProbeAttached_, now, nTTFF, ctl>>

\* main.cpp:537-569: one statement of the callback.
ProbeStep ==
  /\ ~aborted
  /\ prb # "idle"
  /\ CASE prb = "L537" ->
            /\ prb' = IF ~firstFrameSeen_ THEN "L538" ELSE "L544"
            /\ last' = Did("onSinkBufferProbe", prb, <<>>)
            /\ UNCHANGED <<metricVars, prbLoc>>
       [] prb = "L538" ->
            /\ firstFrameSeen_' = TRUE
            /\ prb' = "L540"
            /\ last' = Did("onSinkBufferProbe", prb, <<>>)
            /\ UNCHANGED <<playStartTimer_, lastPts_, frames_, frameCount_, prbLoc>>
       [] prb = "L540" ->
            /\ prb' = "L544"
            /\ last' = Did("onSinkBufferProbe", prb, <<EvTTFF(now - playStartTimer_)>>)
            /\ UNCHANGED <<metricVars, prbLoc>>
       [] prb = "L544" ->
            /\ IF prbLoc.pts = NONE THEN prb' = "idle" /\ prbLoc' = prbLoc
               ELSE IF ProbeAccepts(prbLoc.pts, lastPts_)
               THEN /\ prb' = "L550"
                    /\ prbLoc' = [prbLoc EXCEPT !.delta_ms = DeltaMs(prbLoc.pts, lastPts_)]
               ELSE prb' = "L569" /\ prbLoc' = prbLoc
            /\ last' = Did("onSinkBufferProbe", prb, <<>>)
            /\ UNCHANGED metricVars
       [] prb = "L550" ->
            /\ frames_' = Append(frames_, prbLoc.delta_ms)
            /\ prb' = "L551"
            /\ last' = Did("onSinkBufferProbe", prb, <<>>)
            /\ UNCHANGED <<playStartTimer_, firstFrameSeen_, lastPts_, frameCount_, prbLoc>>
       [] prb = "L551" ->
            /\ frameCount_' = frameCount_ + 1
            /\ prb' = "L553"
            /\ last' = Did("onSinkBufferProbe", prb, <<>>)
            /\ UNCHANGED <<playStartTimer_, firstFrameSeen_, lastPts_, frames_, prbLoc>>
       [] prb = "L553" ->
            /\ prb' = "L564"
            /\ last' = Did("onSinkBufferProbe", prb, ProbePercentiles(frames_, frameCount_))
            /\ UNCHANGED <<metricVars, prbLoc>>
       [] prb = "L564" ->
            /\ frames_' = ProbeTrim(frames_)
            /\ prb' = "L569"
            /\ last' = Did("onSinkBufferProbe", prb, <<>>)
            /\ UNCHANGED <<playStartTimer_, firstFrameSeen_, lastPts_, frameCount_, prbLoc>>
       [] prb = "L569" ->
            /\ lastPts_' = prbLoc.pts
            /\ prb' = "idle"
            /\ last' = Did("onSinkBufferProbe", prb, <<>>)
            /\ UNCHANGED <<playStartTimer_, firstFrameSeen_, frames_, frameCount_, prbLoc>>
  /\ nTTFF' = IF prb = "L540" THEN nTTFF + 1 ELSE nTTFF
  /\ UNCHANGED <<playbackVars, qualityVars, routerVars, sinkProbeAttached_, now, ctl>>

NextConc ==
  \/ CtlTogglePlayPause
  \/ CtlDoSeek
  \/ CtlResetStep
  \/ CtlPlayRequest
  \/ ProbeEnter
  \/ ProbeStep
  \/ EngineStep
  \/ Tick

SpecConc == Init /\ [][NextConc]_vars


\* ------------------------------------------------------- the window at size
\* The collector over a long run of buffers, up to the second trim of the
\* window. The gap between two advancing timestamps is fixed by the number
\* of samples accepted so far, so that the samples differ and each one is
\* known by its rank of arrival.
WindowFrames == TrimAbove + TrimCount + MaxExtra
FrameGap(n)  == (n % MaxGap) + 1

\* The timestamps the next buffer can carry: none, the first one, the last
\* one again, a later one.
NextTimestamps ==
  IF lastPts_ = NONE THEN {NONE, 0}
  ELSE {NONE, lastPts_, lastPts_ + FrameGap(frameCount_)}

\* main.cpp:529-572, for the buffers of a long run.
OnFrame ==
  /\ ~aborted /\ prb = "idle" /\ ctl = "idle"
  /\ Streaming
  /\ frameCount_ < WindowFrames
  /\ \E pts \in NextTimestamps : ProbeRun(pts)

NextWindow ==
  \/ TogglePlayPause
  \/ DoSeek
  \/ EngineStep
  \/ OnFrame

SpecWindow == Init /\ [][NextWindow]_vars


\* ------------------------------------------------------ percentile by itself
\* The vectors and percentiles percentile is applied to.
SampleVectors == UNION {[1..n -> 0..MaxSample] : n \in 0..MaxLen}
Percentiles   == {50, 95}

EvReturn(x) == [ev |-> "return", a |-> "", b |-> x]

\* A call of percentile(v, p) is about to be made.
InitPercentile ==
  /\ Constructed
  /\ \E v \in SampleVectors, p \in Percentiles :
       last = Did("call", [v |-> v, p |-> p], <<>>)

\* main.cpp:32-37: the call returns.
ApplyPercentile ==
  /\ last.op = "call"
  /\ last' = Did("percentile", last.arg, <<EvReturn(percentile(last.arg.v, last.arg.p))>>)
  /\ UNCHANGED <<playbackVars, qualityVars, routerVars, metricVars,
                 sinkProbeAttached_, now, nTTFF, threadVars>>

NextPercentile == ApplyPercentile

SpecPercentile == InitPercentile /\ [][NextPercentile]_vars

\* ================================================================== claims
PlayingOrPaused == {"PLAYING", "PAUSED"}

\* The positions of a trace that hold an event of kind `kind`.
EventsOf(tr, kind) == {i \in 1..Len(tr) : tr[i].ev = kind}

\* C1: whenever pumpBus handles an ERROR or EOS message while the pipeline is
\* playing or paused (as the engine's current state or as the last request),
\* each such message is followed at once by a READY request and the label
\* "Play", and pumpBus ends with READY requested and the label "Play".
C1_TerminalEventRequestsReady ==
  [][ ( /\ last'.op = "pumpBus"
        /\ cur \in PlayingOrPaused \/ reqState \in PlayingOrPaused
        /\ \E i \in 1..Len(bus) : bus[i] \in {"ERROR", "EOS"} )
      => /\ reqState' = "READY"
         /\ playBtnText' = "Play"
         /\ \A i \in EventsOf(last'.trace, "message") :
              last'.trace[i].a \in {"ERROR", "EOS"} =>
                /\ i + 2 <= Len(last'.trace)
                /\ last'.trace[i + 1] = EvSetState("pipeline", "READY")
                /\ last'.trace[i + 2] = EvSetText("playBtn", "Play") ]_vars

\* C1 witness: pumpBus has just handled EOS after a quality toggle, with the
\* engine still playing and the label reset from "Pause".
C1_Witness ==
  /\ last.op = "pumpBus"
  /\ \E i \in EventsOf(last.trace, "message") : last.trace[i].a = "EOS"
  /\ cur = "PLAYING"
  /\ reqState = "READY"
  /\ nToggles > 0

\* C7: the tier is Full (lowQuality_ false) after an even number of
\* toggleQuality calls and Reduced after an odd number.
C7_TierParity == lowQuality_ <=> (nToggles % 2 = 1)

\* C7 witness: two toggles, interleaved with a pause by the user and a
\* pending message, have brought the tier back to Full.
C7_Witness ==
  /\ nToggles = 2
  /\ ~lowQuality_
  /\ last.op = "togglePlayPause"
  /\ bus # <<>>

\* C8: every toggleQuality ends with PLAYING as the last requested state and
\* with the tier flipped.
C8_ToggleEndsPlaying ==
  [][ last'.op = "toggleQuality"
      => /\ reqState' = "PLAYING"
         /\ lowQuality_' = ~lowQuality_
         /\ last'.trace[Len(last'.trace)] = EvSetState("pipeline", "PLAYING") ]_vars

\* C8 witness: a toggle made while the user had the pipeline paused.
C8_Witness ==
  /\ last.op = "toggleQuality"
  /\ last.arg = "PAUSED"
  /\ playBtnText = "Play"
  /\ reqState = "PLAYING"

\* C9: lowQuality_ and the caps property of vcaps_ change only in a
\* toggleQuality step, and in it after the PAUSED request and before the
\* PLAYING request.
C9_TierMutatedOnlyWhilePauseRequested ==
  [][ (lowQuality_' # lowQuality_ \/ vcapsCaps' # vcapsCaps)
      => /\ last'.op = "toggleQuality"
         /\ LET tr     == last'.trace
                iPause == IndexOf(tr, EvSetState("pipeline", "PAUSED"))
                iPlay  == IndexOf(tr, EvSetState("pipeline", "PLAYING"))
            IN  /\ iPause > 0
                /\ \A i \in EventsOf(tr, "set_caps") \cup EventsOf(tr, "lowQuality") :
                     iPause < i /\ i < iPlay ]_vars

\* C9 witness: a toggle has just set the reduced tier and the 640x360 caps.
C9_Witness ==
  /\ last.op = "toggleQuality"
  /\ last.arg = "PLAYING"
  /\ lowQuality_
  /\ vcapsCaps.width = 640 /\ vcapsCaps.height = 360

\* ------------------------------------------------------------ stream router
AtMostOneLink(L) ==
  \A sink \in InputEndpoints : Cardinality({l \in L : l[2] = sink}) <= 1

\* The pad's stream reaches a queue, directly or through cencdec.
Routed(L, pad) ==
  \E q \in {QVideoSink, QAudioSink} :
    \/ <<pad, q>> \in L
    \/ <<pad, CencSink>> \in L /\ <<CencSrc, q>> \in L

\* The link events of the last invocation between src and sink.
LinkEvents(src, sink) ==
  {i \in EventsOf(last.trace, "link") : last.trace[i].a = <<src, sink>>}

\* gst_pad_link was called and did not link.
Failed(res) == res \in {"REFUSED", "WAS_LINKED"}

\* The last step was onPadAdded on a protected video or audio source pad.
ProtectedDiscovered ==
  /\ last.op = "onPadAdded"
  /\ last.arg.dir = "SRC"
  /\ last.arg.caps \in {"video/encv", "audio/enca"}

TargetOfLast == IF last.arg.caps = "video/encv" THEN QVideoSink ELSE QAudioSink

\* C2: after every step each input endpoint (qVideo sink, qAudio sink,
\* cencdec sink) carries at most one link, and onPadAdded on a pad whose
\* stream already reaches a queue changes no link.
C2_IdempotentLinking ==
  [][ /\ AtMostOneLink(links')
      /\ (last'.op = "onPadAdded" /\ Routed(links, last'.arg)) => links' = links ]_vars

\* C2 witness: onPadAdded ran again on a pad already routed through cencdec
\* and found both inputs linked.
C2_Witness ==
  /\ last.op = "onPadAdded"
  /\ <<last.arg, CencSink>> \in links
  /\ Routed(links, last.arg)
  /\ \A i \in EventsOf(last.trace, "link") : last.trace[i].b = "ALREADY"
  /\ Cardinality(links) = 3

\* C3 (as claimed): on a protected video or audio pad with cencdec present,
\* gst_pad_link(cencdec src, queue sink) is called only if the link into the
\* cencdec sink did not fail, and whenever either of the two fails the direct
\* link pad -> queue sink is attempted in the same invocation.
C3_DecryptorPathOrder ==
  (ProtectedDiscovered /\ cencdec_) =>
    LET b == LinkEvents(last.arg, CencSink)
        c == LinkEvents(CencSrc, TargetOfLast)
        d == LinkEvents(last.arg, TargetOfLast)
        bFailed == \E i \in b : Failed(last.trace[i].b)
        cCalled == \E i \in c : last.trace[i].b # "ALREADY"
        cFailed == \E i \in c : Failed(last.trace[i].b)
    IN  /\ cCalled => ~bFailed
        /\ (bFailed \/ cFailed) => d # {}

\* C4: when both links of the decryptor path succeed, the invocation makes no
\* attempt at the direct link and does nothing else.
C4_NoFallbackAfterDecryptorPath ==
  ( /\ ProtectedDiscovered /\ cencdec_
    /\ \E i \in LinkEvents(last.arg, CencSink) : last.trace[i].b = "OK"
    /\ \E i \in LinkEvents(CencSrc, TargetOfLast) : last.trace[i].b = "OK" )
  => /\ LinkEvents(last.arg, TargetOfLast) = {}
     /\ Len(last.trace) = 3
     /\ <<last.arg, TargetOfLast>> \notin links

\* C4 witness: a protected audio pad was linked through cencdec while the
\* video queue is fed directly.
C4_Witness ==
  /\ ProtectedDiscovered /\ cencdec_
  /\ last.arg.caps = "audio/enca"
  /\ \E i \in LinkEvents(last.arg, CencSink) : last.trace[i].b = "OK"
  /\ \E i \in LinkEvents(CencSrc, QAudioSink) : last.trace[i].b = "OK"
  /\ SinkLinked(links, QVideoSink)

\* C5: a missing cencdec does not abort the constructor, and onPadAdded on a
\* protected video or audio pad then leaves cencdec alone and makes exactly
\* one guarded attempt, the direct link pad -> queue sink.
C5_MissingDecryptorFallsBack ==
  /\ (elements = AllElements \ {"cencdec"}) => ~aborted
  /\ (ProtectedDiscovered /\ ~cencdec_) =>
       /\ cencState = "NULL"
       /\ Len(last.trace) = 1
       /\ last.trace[1].ev = "link"
       /\ last.trace[1].a = <<last.arg, TargetOfLast>>
       /\ ~SinkLinked(links, CencSink) /\ ~SrcLinked(links, CencSrc)

\* C5 witness: without cencdec a protected video pad was linked directly.
C5_Witness ==
  /\ ProtectedDiscovered /\ ~cencdec_ /\ ~aborted
  /\ last.trace = <<EvLink(last.arg, QVideoSink, "OK")>>
  /\ <<last.arg, QVideoSink>> \in links

\* A pad onPadAdded must leave unwired: not a source pad, no caps, or a
\* capability name with neither the video/ nor the audio/ prefix.
Unwired(pad) ==
  \/ pad.dir # "SRC"
  \/ pad.caps = ""
  \/ pad.caps \notin {"video/x-raw", "video/encv", "audio/x-raw", "audio/enca"}

\* C6: onPadAdded on such a pad makes no call, creates no link and changes no
\* element state, with or without cencdec.
C6_UnknownNeverWired ==
  [][ (last'.op = "onPadAdded" /\ Unwired(last'.arg))
      => /\ last'.trace = <<>>
         /\ links' = links
         /\ cencState' = cencState
         /\ cur' = cur /\ reqState' = reqState ]_vars

\* C6 witness: application/x-cenc was announced with cencdec present and a
\* stream already routed; nothing was done.
C6_Witness ==
  /\ last.op = "onPadAdded"
  /\ last.arg = [dir |-> "SRC", caps |-> "application/x-cenc", n |-> 1]
  /\ cencdec_
  /\ links # {}

\* ------------------------------------------------------- metrics collector
\* The control context has written part of a reset (main.cpp:249-252 or
\* 324-327) and not yet all of it.
ResetPartWay == ctl \in {"L250", "L251", "L252", "L325", "L326", "L327"}

\* The streaming context is inside onSinkBufferProbe, between its first read
\* of the collector's fields (main.cpp:537) and its last write (main.cpp:569).
ProbePartWay == prb \in {"L538", "L540", "L544", "L550", "L551", "L553", "L564", "L569"}

\* C10 (as claimed): no reachable interleaving has the probe callback part-way
\* through the collector's fields while a reset of togglePlayPause or doSeek
\* is part-way through writing them.
C10_NoMetricsRace == ~(ResetPartWay /\ ProbePartWay)

\* C11 (as claimed): between two consecutive restarts of playStartTimer_
\* (main.cpp:248, 328) at most one TTFF report is emitted (main.cpp:540),
\* whatever the interleaving of the probe callback with the resets of
\* togglePlayPause and doSeek.
C11_TTFFOncePerArming == nTTFF <= 1

\* The positions of a trace that request state st of the pipeline.
RequestsOf(tr, st) ==
  {i \in EventsOf(tr, "set_state") : tr[i].a = "pipeline" /\ tr[i].b = st}

\* C12 (as claimed): whenever a handler requests PLAYING while the pipeline
\* neither is playing nor was last requested to play, the handler has reset
\* the collector before the request: the window is empty, the frame counter
\* is zero and the stopwatch was restarted when the handler ends.
C12_ResetBeforeEveryPlayingRequest ==
  [][ ( /\ cur # "PLAYING" /\ reqState # "PLAYING"
        /\ RequestsOf(last'.trace, "PLAYING") # {} )
      => /\ \A i \in RequestsOf(last'.trace, "PLAYING") :
              \E j \in EventsOf(last'.trace, "metrics_reset") : j < i
         /\ frames_' = <<>>
         /\ frameCount_' = 0
         /\ playStartTimer_' = now ]_vars

\* doSeek has just returned: its last statement was the step just taken.
SeekReturned == last.op = "doSeek" /\ ctl = "idle"

\* C13 (as claimed): when doSeek returns the window is empty, the frame
\* counter is zero, no last timestamp is kept and the stopwatch has just been
\* restarted; with no callback in flight the first-frame flag is clear, so
\* that the next buffer reports TTFF once and appends no sample.
C13_SeekResetsLikeFreshPlay ==
  SeekReturned =>
    /\ frames_ = <<>>
    /\ frameCount_ = 0
    /\ lastPts_ = NONE
    /\ playStartTimer_ = now
    /\ prb = "idle" => ~firstFrameSeen_

\* C14 (as claimed): once READY is the requested state (only the handling of
\* ERROR or EOS requests it), every step other than togglePlayPause leaves
\* READY requested and requests PLAYING at no point.
C14_TerminalUntilExplicitPlay ==
  [][ (reqState = "READY" /\ last'.op # "togglePlayPause")
      => /\ reqState' = "READY"
         /\ RequestsOf(last'.trace, "PLAYING") = {} ]_vars

\* ------------------------------------------------------------------ window
\* The probe callback has just accepted a sample.
Accepted == last'.op = "onSinkBufferProbe" /\ frameCount_' = frameCount_ + 1

\* The window right after the append of the step (main.cpp:550), before the
\* trim: the old window with the new interval at its end.
Appended == Append(frames_, (lastPts_' - lastPts_) \div GstMSecond)

\* C15 (as claimed): when the append of a callback takes the window above
\* 1200 entries, the callback leaves it with at most 1000.
C15_TrimLeavesAtMost1000 ==
  [][ (Accepted /\ Len(Appended) > TrimAbove)
      => Len(frames_') <= TrimAbove - TrimCount ]_vars

\* C15 (amended): when the append of a callback takes the window above 1200
\* entries, the callback leaves it 200 entries shorter than the append made
\* it, which is 1001 entries and never more.
C15_TrimLeaves1001 ==
  [][ (Accepted /\ Len(Appended) > TrimAbove)
      => /\ Len(frames_') = Len(Appended) - TrimCount
         /\ Len(frames_') <= TrimAbove + 1 - TrimCount ]_vars

\* C15 witness: the 1201st sample since the reset was just accepted and the
\* window was trimmed to 1001 entries.
C15_Witness ==
  /\ last.op = "onSinkBufferProbe"
  /\ frameCount_ = TrimAbove + 1
  /\ Len(frames_) = TrimAbove + 1 - TrimCount

\* C16: a callback that accepts a sample leaves the old window with the new
\* sample at its end when that is at most 1200 entries, and that sequence
\* less its 200 first (oldest) entries otherwise; a callback that accepts
\* none leaves the window as it was; no callback ends with more than 1200.
C16_WindowIsRecentSamplesInOrder ==
  [][ last'.op = "onSinkBufferProbe"
      => /\ Accepted /\ Len(Appended) <= TrimAbove => frames_' = Appended
         /\ Accepted /\ Len(Appended) > TrimAbove =>
              frames_' = SubSeq(Appended, TrimCount + 1, Len(Appended))
         /\ ~Accepted => frames_' = frames_
         /\ Len(frames_') <= TrimAbove ]_vars

\* C16 witness: the window was trimmed a second time, at the 1401st sample,
\* and holds the 1001 newest samples.
C16_Witness ==
  /\ last.op = "onSinkBufferProbe"
  /\ frameCount_ = TrimAbove + TrimCount + 1
  /\ Len(frames_) = TrimAbove + 1 - TrimCount
  /\ frames_[Len(frames_)] = FrameGap(frameCount_ - 1) \div GstMSecond

\* C17: for a non-empty vector v of n samples and p in {50, 95}, percentile
\* returns the element at index floor(p/100 * (n-1)) of v sorted ascending,
\* and the common value when all samples are equal.
C17_PercentileIsSortedIndex ==
  (last.op = "percentile" /\ last.arg.v # <<>>) =>
    LET v == last.arg.v
        p == last.arg.p
        r == last.trace[1].b
    IN  /\ r = SortAsc(v)[((p * (Len(v) - 1)) \div 100) + 1]
        /\ (\A i \in 1..Len(v) : v[i] = v[1]) => r = v[1]

\* C17 witness: percentile(<<2, 0, 1, 0>>, 95) returned 1, the element at
\* index 2 of <<0, 0, 1, 2>>, neither the least nor the greatest sample.
C17_Witness ==
  /\ last.op = "percentile"
  /\ last.arg = [v |-> <<2, 0, 1, 0>>, p |-> 95]
  /\ last.trace[1].b = 1

\* C18: a callback emits a percentile pair exactly when it accepts a sample
\* that makes the count since the last reset a positive multiple of 60; the
\* pair is the 50th and the 95th percentile of the whole window as the
\* append left it, and the window keeps that content and order.
C18_PercentilesEvery60 ==
  [][ last'.op = "onSinkBufferProbe"
      => LET pe == EventsOf(last'.trace, "percentiles")
         IN  /\ pe # {} <=> ( /\ Accepted
                              /\ frameCount_' > 0
                              /\ frameCount_' % PercentileEvery = 0 )
             /\ Cardinality(pe) <= 1
             /\ \A i \in pe :
                  /\ last'.trace[i].a = percentile(Appended, 50)
                  /\ last'.trace[i].b = percentile(Appended, 95)
                  /\ Len(Appended) <= TrimAbove => frames_' = Appended ]_vars

\* C18 witness: the 1200th sample was accepted and a pair with distinct
\* median and 95th percentile was emitted on the full window of 1200.
C18_Witness ==
  /\ last.op = "onSinkBufferProbe"
  /\ frameCount_ = TrimAbove
  /\ Len(frames_) = TrimAbove
  /\ \E i \in EventsOf(last.trace, "percentiles") : last.trace[i].a < last.trace[i].b

\* C19: a callback for a buffer with a timestamp appends the interval and
\* counts it only if a timestamp is kept since the last reset and the new one
\* is later; otherwise window and counter stay; either way the new timestamp
\* is kept. A buffer without timestamp changes none of the three.
C19_SampleOnlyOnAdvance ==
  [][ last'.op = "onSinkBufferProbe"
      => LET pts == last'.arg
         IN  IF pts = NONE
             THEN UNCHANGED <<frames_, frameCount_, lastPts_>>
             ELSE /\ lastPts_' = pts
                  /\ IF lastPts_ # NONE /\ pts - lastPts_ > 0
                     THEN /\ frames_' = Append(frames_, (pts - lastPts_) \div GstMSecond)
                          /\ frameCount_' = frameCount_ + 1
                     ELSE UNCHANGED <<frames_, frameCount_>> ]_vars

\* C19 witness: a buffer whose timestamp did not advance past the one kept
\* was discarded after the first frame (no TTFF report in its trace) and its
\* timestamp was kept.
C19_Witness ==
  /\ last.op = "onSinkBufferProbe"
  /\ last.arg # NONE
  /\ last.trace = <<>>
  /\ frames_ = <<>>
  /\ frameCount_ = 0
  /\ lastPts_ = last.arg

C21_DecryptorNeverHalfLinked ==
  last.op = "onPadAdded" =>
    (SrcLinked(links, CencSrc) <=> SinkLinked(links, CencSink))

\* C22: whenever no handler is mid-execution, lowQuality_ is true exactly
\* when the caps of vcaps_ are the 640x360 constraint, and false exactly when
\* they are unconstrained.
C22_TierMatchesCaps ==
  ctl = "idle" =>
    /\ lowQuality_ <=> vcapsCaps = LowCaps
    /\ ~lowQuality_ <=> vcapsCaps = AnyCaps

\* C22 witness: a second toggleQuality has just restored full quality: the
\* constraint set by the first one is cleared again.
C22_Witness ==
  /\ last.op = "toggleQuality"
  /\ EventsOf(last.trace, "set_caps") # {}
  /\ nToggles = 2
  /\ ~lowQuality_
  /\ vcapsCaps = AnyCaps

\* C23 (as claimed): whenever no handler is mid-execution, the play button
\* reads "Pause" exactly when PLAYING is the state last requested of the
\* pipeline, and "Play" otherwise.
C23_LabelMatchesRequest ==
  ctl = "idle" =>
    /\ playBtnText = "Pause" <=> reqState = "PLAYING"
    /\ playBtnText = "Play" <=> reqState # "PLAYING"

\* C24 (as claimed): whenever neither the probe callback nor a reset is
\* mid-execution, the window is no longer than the frame counter says, and
\* exactly that long while the counter is at most 1200, whatever the
\* interleaving of callbacks with the resets of togglePlayPause and doSeek.
C24_CounterMatchesWindow ==
  (ctl = "idle" /\ prb = "idle") =>
    /\ Len(frames_) <= frameCount_
    /\ frameCount_ <= TrimAbove => Len(frames_) = frameCount_

====
